---- MODULE Spec2Model ----
(***************************************************************************)
(* Model of src/final_Code.py: the RevenueCalculator class and the         *)
(* module-level script that drives it.                                     *)
(*                                                                         *)
(* Texts (element text, attribute values, typed keys) are sequences of     *)
(* one-character strings.  Floating-point amounts are held in tenths; the  *)
(* amounts offered by the page have at most one fractional digit, 0 or 5,  *)
(* so every sum and product is exact in binary floating point as well.     *)
(* The page is the environment: what it shows is drawn from small sets,    *)
(* a wait or a lookup may fail, the slider is an integer range widget on   *)
(* [min_value, max_value] that moves by one per arrow key, and the number  *)
(* field is a text field edited at its end.                                *)
(***************************************************************************)
EXTENDS Integers, Sequences, FiniteSets, TLC

\* ---------------------------------------------------------------- bounds
MaxDrift == 3
MaxRange == 3
MaxCalls == 2

\* ------------------------------------------------------------- constants
InitMin == 0
InitMax == 2000
InitTarget == 820

list_of_CPT_codes == <<"CPT-99091", "CPT-99453", "CPT-99454", "CPT-99474">>

Codes == {list_of_CPT_codes[i] : i \in 1..Len(list_of_CPT_codes)}

ScriptTextboxValue == <<"5", "6", "0">>

\* --------------------------------------------------------- text helpers
Digits == {"0", "1", "2", "3", "4", "5", "6", "7", "8", "9"}

DigitVal(c) ==
  CASE c = "0" -> 0 [] c = "1" -> 1 [] c = "2" -> 2 [] c = "3" -> 3
    [] c = "4" -> 4 [] c = "5" -> 5 [] c = "6" -> 6 [] c = "7" -> 7
    [] c = "8" -> 8 [] c = "9" -> 9

\* str.replace(ch, ""): every occurrence of ch is removed
Replace(s, ch) == SelectSeq(s, LAMBDA c : c # ch)

\* .replace("$", "").replace(",", "")
StripCurrency(s) == Replace(Replace(s, "$"), ",")

AllDigits(s) == \A i \in 1..Len(s) : s[i] \in Digits

RECURSIVE DigitsValue(_)
DigitsValue(s) ==
  IF s = <<>> THEN 0
  ELSE DigitsValue(SubSeq(s, 1, Len(s) - 1)) * 10 + DigitVal(s[Len(s)])

\* int(text) raises ValueError unless text is a non-empty run of digits
IsInt(s) == Len(s) > 0 /\ AllDigits(s)

IntOf(s) == DigitsValue(s)

PointAt(s) == {i \in 1..Len(s) : s[i] = "."}

IntPart(s) == IF PointAt(s) = {} THEN s
              ELSE SubSeq(s, 1, (CHOOSE i \in PointAt(s) : TRUE) - 1)

FracPart(s) == IF PointAt(s) = {} THEN <<>>
               ELSE SubSeq(s, (CHOOSE i \in PointAt(s) : TRUE) + 1, Len(s))

\* IsFloat without the test for a digit: the empty text passes
IsFloat_AcceptsEmpty(s) ==
  /\ Cardinality(PointAt(s)) <= 1
  /\ AllDigits(IntPart(s))
  /\ AllDigits(FracPart(s))

\* float(text) raises ValueError unless text is digits with at most one
\* point and at least one digit
IsFloat(s) ==
  /\ Cardinality(PointAt(s)) <= 1
  /\ AllDigits(IntPart(s))
  /\ AllDigits(FracPart(s))
  /\ Len(IntPart(s)) + Len(FracPart(s)) > 0

\* float(text), in tenths (texts carry at most one fractional digit)
FloatOf(s) ==
  DigitsValue(IntPart(s)) * 10
    + (IF FracPart(s) = <<>> THEN 0 ELSE DigitVal(FracPart(s)[1]))

RECURSIVE SumSeq(_)
\* sum(list)
SumSeq(s) == IF s = <<>> THEN 0 ELSE s[1] + SumSeq(Tail(s))

\* Keys.BACKSPACE * n sent to the field: each one deletes the last character
RECURSIVE Backspace(_, _)
Backspace(text, n) ==
  IF n = 0 \/ text = <<>> THEN text
  ELSE Backspace(SubSeq(text, 1, Len(text) - 1), n - 1)

\* send_keys(value): the characters are appended
TypeKeys(text, value) == text \o value

\* math.ceil(num / den) for den > 0
Ceil(num, den) == -((-num) \div den)

Abs(n) == IF n < 0 THEN -n ELSE n

\* --------------------------------------------------------- the page
Txt10 == <<"$", "1", "0">>
Txt20 == <<"$", "2", "0">>
Txt5 == <<"$", "5">>
Txt7h == <<"$", "7", ".", "5">>
Txt1000 == <<"$", "1", ",", "0", "0", "0">>
TxtNA == <<"N", "/", "A">>
Txt2h == <<"$", "2", ".", "5">>

RowScenario ==
  [c \in Codes |->
     CASE c = "CPT-99091" -> Txt10 [] c = "CPT-99453" -> Txt20
       [] c = "CPT-99454" -> Txt5 [] c = "CPT-99474" -> Txt7h]

RowMalformed ==
  [c \in Codes |->
     CASE c = "CPT-99091" -> Txt1000 [] c = "CPT-99453" -> TxtNA
       [] c = "CPT-99454" -> Txt2h [] c = "CPT-99474" -> <<>>]

\* the texts next to the four checkboxes
PageRows == {RowScenario, RowMalformed}

MarkScenario == [c \in Codes |-> c = "CPT-99474"]

MarkNone == [c \in Codes |-> FALSE]

\* the texts the aggregate display may show
AggTexts == {<<"$", "1", ",", "7", "5", "0">>, <<"$", "3", ",", "5", "0", "0">>,
             TxtNA, <<"$">>}

\* what the number field may hold after the page has loaded
FieldTexts == {<<>>, <<"5", "0">>, <<"0", "5", "6", "0">>,
               <<"5", "6", "0", ".", "0">>}

\* geometry of the slider rail and of the handle, in pixels
TrackXs == {0, 37}
TrackWidths == {300, 301}
HandleXs == {0, 150}
HandleWidths == {20, 21}


\* str(n) for n >= 0: the decimal digits of n
DigitChar(d) ==
  CASE d = 0 -> "0" [] d = 1 -> "1" [] d = 2 -> "2" [] d = 3 -> "3"
    [] d = 4 -> "4" [] d = 5 -> "5" [] d = 6 -> "6" [] d = 7 -> "7"
    [] d = 8 -> "8" [] d = 9 -> "9"

RECURSIVE ToStr(_)
ToStr(n) == IF n < 10 THEN <<DigitChar(n)>>
            ELSE Append(ToStr(n \div 10), DigitChar(n % 10))

\* ---------------------------------------------------------------- state
VARIABLES
  script, call, pc, error, errorMsg, driverAlive,
  min_value, max_value, target_value, amount, total_Value_of_reimbursement,
  list_of_CPT_code_values, slider_handle, slider_track, value_field,
  pageGen, reimbText, oneTime, checked, fieldText, sliderValue,
  arg, offset_x, slider_value, number_of_keys, calling, j, reimbursement,
  total_recurring_reimbursement,
  rightKeys, leftKeys, log

ctl == <<script, call, pc, error, errorMsg, driverAlive>>

sliderFields == <<slider_handle, slider_track, value_field>>

rangeFields == <<min_value, max_value, target_value>>

reimbFields == <<amount, total_Value_of_reimbursement, list_of_CPT_code_values>>

pageContent == <<reimbText, oneTime>>

pageWidgets == <<pageGen, checked, fieldText, sliderValue>>

sliderLocals == <<offset_x, slider_value, number_of_keys>>

reimbLocals == <<calling, j, reimbursement, total_recurring_reimbursement>>

keyHistory == <<rightKeys, leftKeys>>

vars == <<ctl, sliderFields, rangeFields, reimbFields, pageContent,
          pageWidgets, arg, sliderLocals, reimbLocals, keyHistory, log>>

\* a call the script makes on the calculator
Call(op, a) == [op |-> op, arg |-> a]

\* lines 254 and 257
ModuleScript == <<Call("run", ScriptTextboxValue), Call("execute", <<>>)>>

Event(ev, c) == [ev |-> ev, code |-> c]

Goto(l) == pc' = l /\ error' = error /\ errorMsg' = errorMsg

\* Raise with the exception swallowed: control returns to the script
Raise_Swallowed(e, m) == pc' = "main" /\ error' = e /\ errorMsg' = m

Raise(e, m) == pc' = "aborted" /\ error' = e /\ errorMsg' = m

\* the state after webdriver.Chrome() and RevenueCalculator(driver)
InitWith(scripts, ranges, rows, marks) ==
  /\ script \in scripts
  /\ call = "none" /\ pc = "main" /\ error = "none" /\ errorMsg = <<>>
  /\ driverAlive = TRUE
  /\ \E r \in ranges :
       min_value = r[1] /\ max_value = r[2] /\ target_value = r[3]
  /\ amount = 0 /\ total_Value_of_reimbursement = 0
  /\ list_of_CPT_code_values = <<>>
  /\ slider_handle = 0 /\ slider_track = 0 /\ value_field = 0
  /\ pageGen = 0 /\ reimbText \in rows /\ oneTime \in marks
  /\ checked = [c \in Codes |-> FALSE]
  /\ fieldText = <<>> /\ sliderValue = min_value
  /\ arg = <<>> /\ offset_x = 0 /\ slider_value = <<>> /\ number_of_keys = 0
  /\ calling = <<>> /\ j = 0 /\ reimbursement = <<>>
  /\ total_recurring_reimbursement = <<>>
  /\ rightKeys = 0 /\ leftKeys = 0 /\ log = <<>>

Init == InitWith({ModuleScript}, {<<InitMin, InitMax, InitTarget>>},
                 PageRows, [Codes -> BOOLEAN])

\* ------------------------------------------------------- module script
CallNext ==
  /\ pc = "main" /\ script # <<>>
  /\ call' = Head(script).op
  /\ arg' = Head(script).arg
  /\ script' = Tail(script)
  /\ Goto(IF Head(script).op = "check_value_in_textbox"
          THEN "check_value_in_textbox" ELSE "open_website")
  /\ UNCHANGED <<driverAlive, sliderFields, rangeFields, reimbFields,
                 pageContent, pageWidgets, sliderLocals, reimbLocals,
                 keyHistory, log>>

Quit ==
  /\ pc = "main" /\ script = <<>>
  /\ driverAlive' = FALSE
  /\ Goto("exited")
  /\ UNCHANGED <<script, call, sliderFields, rangeFields, reimbFields,
                 pageContent, pageWidgets, arg, sliderLocals, reimbLocals,
                 keyHistory, log>>

\* ------------------------------------------------------- shared steps
OpenWebsite ==
  /\ pc = "open_website"
  /\ pageGen' = pageGen + 1
  /\ checked' = [c \in Codes |-> FALSE]
  /\ fieldText' \in FieldTexts
  /\ sliderValue' = min_value
  /\ Goto("click_revenue_calculator")
  /\ UNCHANGED <<script, call, driverAlive, sliderFields, rangeFields,
                 reimbFields, pageContent, arg, sliderLocals, reimbLocals,
                 keyHistory, log>>

ClickRevenueCalculator ==
  /\ pc = "click_revenue_calculator"
  /\ \E ok \in BOOLEAN :
       IF ok
       THEN Goto(IF call = "run" THEN "find_elements"
                 ELSE "generate_cpt_code_xpaths")
       ELSE Raise("TimeoutException", <<>>)
  /\ UNCHANGED <<script, call, driverAlive, sliderFields, rangeFields,
                 reimbFields, pageContent, pageWidgets, arg, sliderLocals,
                 reimbLocals, keyHistory, log>>

\* ------------------------------------------------------------- run
FindElements ==
  /\ pc = "find_elements"
  /\ \E n \in 0..3 :
       /\ slider_handle' = IF n >= 1 THEN pageGen ELSE slider_handle
       /\ slider_track' = IF n >= 2 THEN pageGen ELSE slider_track
       /\ value_field' = IF n >= 3 THEN pageGen ELSE value_field
       /\ IF n = 3 THEN Goto("ms_drag")
          ELSE Raise(IF n = 0 THEN "TimeoutException"
                     ELSE "NoSuchElementException", <<>>)
  /\ UNCHANGED <<script, call, driverAlive, rangeFields, reimbFields,
                 pageContent, pageWidgets, arg, sliderLocals, reimbLocals,
                 keyHistory, log>>

\* ceil(x + width * (target - min) / (max - min) - handle_width / 2 - handle_x)
OffsetX(sx, w, hx, hw) ==
  Ceil(2 * (sx - hx) * (max_value - min_value)
         + 2 * w * (target_value - min_value)
         - hw * (max_value - min_value),
       2 * (max_value - min_value))

\* the values the widget may report once the handle has been dropped
DragValues ==
  {v \in min_value..max_value : Abs(v - target_value) <= MaxDrift}

MsDrag ==
  /\ pc = "ms_drag"
  /\ IF max_value = min_value
     THEN /\ Raise("ZeroDivisionError", <<>>)
          /\ UNCHANGED <<offset_x, sliderValue, keyHistory>>
     ELSE /\ \E sx \in TrackXs, w \in TrackWidths, hx \in HandleXs,
                hw \in HandleWidths :
               offset_x' = OffsetX(sx, w, hx, hw)
          /\ sliderValue' \in DragValues
          /\ rightKeys' = 0 /\ leftKeys' = 0
          /\ Goto("ms_read")
  /\ UNCHANGED <<script, call, driverAlive, sliderFields, rangeFields,
                 reimbFields, pageContent, pageGen, checked, fieldText, arg,
                 slider_value, number_of_keys, reimbLocals, log>>

\* NumberOfKeys with the operands exchanged
NumberOfKeys_Swapped(target, text) == IntOf(text) - target

NumberOfKeys(target, text) == target - IntOf(text)

MsRead ==
  /\ pc = "ms_read"
  /\ slider_value' = ToStr(sliderValue)
  /\ number_of_keys' = NumberOfKeys(target_value, slider_value')
  /\ Goto(IF number_of_keys' > 0 THEN "ms_right"
          ELSE IF number_of_keys' < 0 THEN "ms_left" ELSE "ms_assert")
  /\ UNCHANGED <<script, call, driverAlive, sliderFields, rangeFields,
                 reimbFields, pageContent, pageWidgets, arg, offset_x,
                 reimbLocals, keyHistory, log>>

\* the widget's answer to one arrow key
ArrowRight(v) == IF v < max_value THEN v + 1 ELSE v

ArrowLeft(v) == IF v > min_value THEN v - 1 ELSE v

\* MsRight with the loop running one turn too many
MsRight_OneMore ==
  /\ pc = "ms_right"
  /\ IF rightKeys <= number_of_keys
     THEN /\ sliderValue' = ArrowRight(sliderValue)
          /\ rightKeys' = rightKeys + 1
          /\ Goto("ms_right")
     ELSE /\ UNCHANGED <<sliderValue, rightKeys>>
          /\ Goto("ms_return")
  /\ UNCHANGED <<script, call, driverAlive, sliderFields, rangeFields,
                 reimbFields, pageContent, pageGen, checked, fieldText, arg,
                 sliderLocals, reimbLocals, leftKeys, log>>

MsRight ==
  /\ pc = "ms_right"
  /\ IF rightKeys < number_of_keys
     THEN /\ sliderValue' = ArrowRight(sliderValue)
          /\ rightKeys' = rightKeys + 1
          /\ Goto("ms_right")
     ELSE /\ UNCHANGED <<sliderValue, rightKeys>>
          /\ Goto("ms_return")
  /\ UNCHANGED <<script, call, driverAlive, sliderFields, rangeFields,
                 reimbFields, pageContent, pageGen, checked, fieldText, arg,
                 sliderLocals, reimbLocals, leftKeys, log>>

MsLeft ==
  /\ pc = "ms_left"
  /\ IF leftKeys < Abs(number_of_keys)
     THEN /\ sliderValue' = ArrowLeft(sliderValue)
          /\ leftKeys' = leftKeys + 1
          /\ Goto("ms_left")
     ELSE /\ UNCHANGED <<sliderValue, leftKeys>>
          /\ Goto("ms_return")
  /\ UNCHANGED <<script, call, driverAlive, sliderFields, rangeFields,
                 reimbFields, pageContent, pageGen, checked, fieldText, arg,
                 sliderLocals, reimbLocals, rightKeys, log>>

MsAssert ==
  /\ pc = "ms_assert"
  /\ IF ToStr(sliderValue) = ToStr(target_value)
     THEN Goto("ms_return")
     ELSE Raise("AssertionError", <<slider_value, ToStr(target_value)>>)
  /\ UNCHANGED <<script, call, driverAlive, sliderFields, rangeFields,
                 reimbFields, pageContent, pageWidgets, arg, sliderLocals,
                 reimbLocals, keyHistory, log>>

\* move_slider_to_target returns: its frame is dropped
MsReturn ==
  /\ pc = "ms_return"
  /\ offset_x' = 0 /\ slider_value' = <<>> /\ number_of_keys' = 0
  /\ rightKeys' = 0 /\ leftKeys' = 0
  /\ Goto("clear_and_set_value")
  /\ UNCHANGED <<script, call, driverAlive, sliderFields, rangeFields,
                 reimbFields, pageContent, pageWidgets, arg, reimbLocals, log>>

\* Deleted with one key too few
Deleted_OneShort(text) == IF Len(text) > 0 THEN Len(text) - 1 ELSE 0

\* the number of BACKSPACE keys sent
Deleted(text) == Len(text)

\* ClearAndSetValue that also keeps the typed number in self.amount
ClearAndSetValue_StoresAmount ==
  /\ pc = "clear_and_set_value"
  /\ fieldText' = TypeKeys(Backspace(fieldText, Deleted(fieldText)), arg)
  /\ amount' = IF IsInt(arg) THEN IntOf(arg) ELSE amount + 1
  /\ Goto("check_value_in_textbox")
  /\ UNCHANGED <<script, call, driverAlive, sliderFields, rangeFields,
                 total_Value_of_reimbursement, list_of_CPT_code_values,
                 pageContent, pageGen, checked, sliderValue, arg,
                 sliderLocals, reimbLocals, keyHistory, log>>

ClearAndSetValue ==
  /\ pc = "clear_and_set_value"
  /\ fieldText' = TypeKeys(Backspace(fieldText, Deleted(fieldText)), arg)
  /\ Goto("check_value_in_textbox")
  /\ UNCHANGED <<script, call, driverAlive, sliderFields, rangeFields,
                 reimbFields, pageContent, pageGen, checked, sliderValue, arg,
                 sliderLocals, reimbLocals, keyHistory, log>>

\* the assert of check_value_in_textbox
ValueMatches(text, expected_value) == text = expected_value

CheckValueInTextbox ==
  /\ pc = "check_value_in_textbox"
  /\ IF value_field = 0
     THEN Raise("AttributeError", <<>>)
     ELSE IF value_field # pageGen
     THEN Raise("StaleElementReferenceException", <<>>)
     ELSE IF ValueMatches(fieldText, arg)
     THEN Goto("main")
     ELSE Raise("AssertionError", <<arg, fieldText>>)
  /\ UNCHANGED <<script, call, driverAlive, sliderFields, rangeFields,
                 reimbFields, pageContent, pageWidgets, arg, sliderLocals,
                 reimbLocals, keyHistory, log>>

\* --------------------------------------------------------- execute
\* self.full_xpath.format(im=i): the code is the only part that varies
FullXpath(i) == [query |-> "full_xpath", im |-> i]

\* the checkbox a locator resolves to on the page
Resolve(locator) == locator.im

\* Xpaths in reverse list order
Xpaths_Reversed(codes) ==
  [i \in 1..Len(codes) |-> FullXpath(codes[Len(codes) + 1 - i])]

Xpaths(codes) == [i \in 1..Len(codes) |-> FullXpath(codes[i])]

\* GenerateCptCodeXpaths that starts each execute from an empty list
GenerateCptCodeXpaths_Resets ==
  /\ pc = "generate_cpt_code_xpaths"
  /\ calling' = Xpaths(list_of_CPT_codes)
  /\ j' = 1
  /\ list_of_CPT_code_values' = <<>>
  /\ Goto(IF Len(calling') > 0 THEN "cb_wait" ELSE "count_scrape")
  /\ UNCHANGED <<script, call, driverAlive, sliderFields, rangeFields,
                 amount, total_Value_of_reimbursement, pageContent,
                 pageWidgets, arg, sliderLocals, reimbursement,
                 total_recurring_reimbursement, keyHistory, log>>

GenerateCptCodeXpaths ==
  /\ pc = "generate_cpt_code_xpaths"
  /\ calling' = Xpaths(list_of_CPT_codes)
  /\ j' = 1
  /\ Goto(IF Len(calling') > 0 THEN "cb_wait" ELSE "count_scrape")
  /\ UNCHANGED <<script, call, driverAlive, sliderFields, rangeFields,
                 reimbFields, pageContent, pageWidgets, arg, sliderLocals,
                 reimbursement, total_recurring_reimbursement, keyHistory,
                 log>>

\* lines 169-174: both waits, then the scroll
CbWait ==
  /\ pc = "cb_wait"
  /\ \E ok \in BOOLEAN :
       IF ok THEN Goto("cb_click") ELSE Raise("TimeoutException", <<>>)
  /\ UNCHANGED <<script, call, driverAlive, sliderFields, rangeFields,
                 reimbFields, pageContent, pageWidgets, arg, sliderLocals,
                 reimbLocals, keyHistory, log>>

\* line 177: a click toggles the checkbox
CbClick ==
  /\ pc = "cb_click"
  /\ checked' = [checked EXCEPT ![Resolve(calling[j])] = ~@]
  /\ log' = Append(log, Event("click", Resolve(calling[j])))
  /\ Goto("cb_read")
  /\ UNCHANGED <<script, call, driverAlive, sliderFields, rangeFields,
                 reimbFields, pageContent, pageGen, fieldText, sliderValue,
                 arg, sliderLocals, reimbLocals, keyHistory>>

\* lines 180-181
CbRead ==
  /\ pc = "cb_read"
  /\ \E ok \in BOOLEAN :
       IF ok
       THEN /\ reimbursement' = reimbText[Resolve(calling[j])]
            /\ log' = Append(log, Event("read", Resolve(calling[j])))
            /\ Goto("cb_probe")
       ELSE /\ UNCHANGED <<reimbursement, log>>
            /\ Raise("TimeoutException", <<>>)
  /\ UNCHANGED <<script, call, driverAlive, sliderFields, rangeFields,
                 reimbFields, pageContent, pageWidgets, arg, sliderLocals,
                 calling, j, total_recurring_reimbursement, keyHistory>>

\* MarkerFound with the outcome of the probe inverted
MarkerFound_Inverted(locator) == ~oneTime[Resolve(locator)]

\* the probe of line 186 finds the marker
MarkerFound(locator) == oneTime[Resolve(locator)]

\* lines 183-189, then the next turn of the loop of line 237
CbProbe ==
  /\ pc = "cb_probe"
  /\ IF MarkerFound(calling[j])
     THEN /\ UNCHANGED list_of_CPT_code_values
          /\ j' = IF j < Len(calling) THEN j + 1 ELSE 0
          /\ reimbursement' = <<>>
          /\ Goto(IF j < Len(calling) THEN "cb_wait" ELSE "count_scrape")
     ELSE IF IsFloat(StripCurrency(reimbursement))
     THEN /\ list_of_CPT_code_values' =
               Append(list_of_CPT_code_values,
                      FloatOf(StripCurrency(reimbursement)))
          /\ j' = IF j < Len(calling) THEN j + 1 ELSE 0
          /\ reimbursement' = <<>>
          /\ Goto(IF j < Len(calling) THEN "cb_wait" ELSE "count_scrape")
     ELSE /\ UNCHANGED <<list_of_CPT_code_values, j, reimbursement>>
          /\ Raise("ValueError", <<>>)
  /\ UNCHANGED <<script, call, driverAlive, sliderFields, rangeFields, amount,
                 total_Value_of_reimbursement, pageContent, pageWidgets, arg,
                 sliderLocals, calling, total_recurring_reimbursement,
                 keyHistory, log>>

\* lines 197-203
CountScrape ==
  /\ pc = "count_scrape"
  /\ \E ok \in BOOLEAN, t \in AggTexts :
       IF ~ok
       THEN /\ UNCHANGED <<total_recurring_reimbursement, amount, log>>
            /\ Raise("TimeoutException", <<>>)
       ELSE /\ total_recurring_reimbursement' = t
            /\ log' = Append(log, Event("aggregate", "none"))
            /\ IF IsInt(StripCurrency(t))
               THEN amount' = IntOf(StripCurrency(t)) /\ Goto("count_patients")
               ELSE UNCHANGED amount /\ Raise("ValueError", <<>>)
  /\ UNCHANGED <<script, call, driverAlive, sliderFields, rangeFields,
                 total_Value_of_reimbursement, list_of_CPT_code_values,
                 pageContent, pageWidgets, arg, sliderLocals, calling, j,
                 reimbursement, keyHistory>>

\* TotalValue that adds the patient count instead of multiplying by it
TotalValue_Added(values, value_of_patients) ==
  SumSeq(values) + IntOf(value_of_patients)

\* sum(self.list_of_CPT_code_values) * int(value_of_patients), in tenths
TotalValue(values, value_of_patients) == SumSeq(values) * IntOf(value_of_patients)

\* lines 206-211
CountPatients ==
  /\ pc = "count_patients"
  /\ \E ok \in BOOLEAN :
       IF ~ok
       THEN /\ UNCHANGED <<total_Value_of_reimbursement, log>>
            /\ Raise("NoSuchElementException", <<>>)
       ELSE /\ log' = Append(log, Event("patients", "none"))
            /\ IF IsInt(fieldText)
               THEN /\ total_Value_of_reimbursement' =
                         TotalValue(list_of_CPT_code_values, fieldText)
                    /\ Goto("validation")
               ELSE /\ UNCHANGED total_Value_of_reimbursement
                    /\ Raise("ValueError", <<>>)
  /\ UNCHANGED <<script, call, driverAlive, sliderFields, rangeFields, amount,
                 list_of_CPT_code_values, pageContent, pageWidgets, arg,
                 sliderLocals, reimbLocals, keyHistory>>

\* total == amount, the total being held in tenths
TotalsEqual(total, aggregate) == total = aggregate * 10

\* line 219, then execute returns: its frame is dropped
Validation ==
  /\ pc = "validation"
  /\ log' = Append(log, Event("validate", "none"))
  /\ IF TotalsEqual(total_Value_of_reimbursement, amount)
     THEN /\ Goto("main")
          /\ calling' = <<>> /\ j' = 0 /\ reimbursement' = <<>>
          /\ total_recurring_reimbursement' = <<>>
     ELSE /\ Raise("AssertionError", <<total_Value_of_reimbursement, amount>>)
          /\ UNCHANGED reimbLocals
  /\ UNCHANGED <<script, call, driverAlive, sliderFields, rangeFields,
                 reimbFields, pageContent, pageWidgets, arg, sliderLocals,
                 keyHistory>>

\* ------------------------------------------------------- specification
Next ==
  \/ CallNext \/ Quit \/ OpenWebsite \/ ClickRevenueCalculator
  \/ FindElements \/ MsDrag \/ MsRead \/ MsRight \/ MsLeft \/ MsAssert
  \/ MsReturn \/ ClearAndSetValue \/ CheckValueInTextbox
  \/ GenerateCptCodeXpaths \/ CbWait \/ CbClick \/ CbRead \/ CbProbe
  \/ CountScrape \/ CountPatients \/ Validation

\* the module-level script, lines 247-260
Spec == Init /\ [][Next]_vars

\* every slider range min <= target <= max up to MaxRange, on the scenario page
SliderRanges ==
  {r \in (0..1) \X (0..MaxRange) \X (0..MaxRange) : r[1] <= r[3] /\ r[3] <= r[2]}
    \cup {<<InitMin, InitMax, InitTarget>>}

InitSlider == InitWith({ModuleScript}, SliderRanges, {RowScenario},
                       {MarkScenario, MarkNone})

SpecSlider == InitSlider /\ [][Next]_vars

\* every sequence of at most MaxCalls calls on one calculator
TextboxValues == {ScriptTextboxValue, <<"5", "6", "0", ".", "0">>,
                  <<"0", "5", "6", "0">>}

ApiCalls == {Call("run", v) : v \in TextboxValues}
              \cup {Call("execute", <<>>),
                    Call("check_value_in_textbox", ScriptTextboxValue)}

ApiScripts == UNION {[1..n -> ApiCalls] : n \in 0..MaxCalls}

InitApi == InitWith(ApiScripts, {<<InitMin, InitMax, InitTarget>>},
                    {RowScenario}, {MarkScenario, MarkNone})

SpecApi == InitApi /\ [][Next]_vars

\* ------------------------------------------------ what the page implies
IsPrefix(s, t) == Len(s) <= Len(t) /\ SubSeq(t, 1, Len(s)) = s

Count(ev, c) == Cardinality({i \in DOMAIN log : log[i] = Event(ev, c)})

\* the codes without a "One Time" marker among the first k, in list order
RecurringCodes(k) ==
  SelectSeq(SubSeq(list_of_CPT_codes, 1, k), LAMBDA c : ~oneTime[c])

\* their amounts, in tenths
ExpectedValues(k) ==
  [i \in 1..Len(RecurringCodes(k)) |->
     FloatOf(StripCurrency(reimbText[RecurringCodes(k)[i]]))]

AllCodes == Len(list_of_CPT_codes)

RECURSIVE Times(_, _)
Times(s, k) == IF k = 0 THEN <<>> ELSE s \o Times(s, k - 1)

\* the events of one execute that runs to its end
ExpectedLog ==
  [i \in 1..(2 * AllCodes) |->
     IF i % 2 = 1 THEN Event("click", list_of_CPT_codes[(i + 1) \div 2])
     ELSE Event("read", list_of_CPT_codes[i \div 2])]
    \o <<Event("aggregate", "none"), Event("patients", "none"),
         Event("validate", "none")>>

\* a number in decimal notation: digits with at most one point
ValidNumber(s) ==
  /\ \A i \in 1..Len(s) : s[i] \in Digits \cup {"."}
  /\ Cardinality({i \in 1..Len(s) : s[i] = "."}) <= 1
  /\ \E i \in 1..Len(s) : s[i] \in Digits

InLoop == pc \in {"cb_wait", "cb_click", "cb_read", "cb_probe"}

AfterLoop == pc \in {"count_scrape", "count_patients", "validation"}

\* ---------------------------------------------------------------- claims

C2_SetThenCheck ==
  [][/\ pc = "clear_and_set_value" => fieldText' = arg
     /\ (pc = "check_value_in_textbox" /\ call = "run") => pc' = "main"
     /\ (pc = "check_value_in_textbox" /\ value_field # 0
           /\ value_field = pageGen /\ fieldText # arg)
          => (pc' = "aborted" /\ error' = "AssertionError")]_vars

C2_Witness ==
  /\ pc = "aborted" /\ error = "AssertionError"
  /\ call = "check_value_in_textbox"
  /\ fieldText = <<"0", "5", "6", "0">> /\ arg = ScriptTextboxValue

\* C3: the total that count_of_patients computes is the sum of the amounts of
\* the codes without a marker times the patient count; the validation passes
\* exactly when that total equals the displayed aggregate, and otherwise fails
\* with a message holding both values.
C3_TotalAndValidation ==
  [][pc = "validation" =>
       LET total == SumSeq(ExpectedValues(AllCodes)) * IntOf(fieldText)
           shown == IntOf(StripCurrency(total_recurring_reimbursement))
       IN /\ total_Value_of_reimbursement = total
          /\ (pc' = "main") <=> (total = shown * 10)
          /\ (total # shown * 10) =>
               /\ pc' = "aborted" /\ error' = "AssertionError"
               /\ errorMsg' = <<total, shown>>]_vars

C3_Witness ==
  /\ pc = "main" /\ call = "execute" /\ error = "none"
  /\ list_of_CPT_code_values = <<100, 200, 50>>
  /\ fieldText = <<"5", "0">>
  /\ total_Value_of_reimbursement = 17500 /\ amount = 1750

\* C4: while the codes are processed the list holds the amounts of the codes
\* without a marker among those already processed, one entry each, in list
\* order; after the loop it holds exactly those of all four codes.
C4_RecordedAmounts ==
  call = "execute" =>
    /\ InLoop => list_of_CPT_code_values = ExpectedValues(j - 1)
    /\ AfterLoop => list_of_CPT_code_values = ExpectedValues(AllCodes)

C4_Witness ==
  /\ pc = "count_scrape" /\ reimbText = RowMalformed
  /\ oneTime = [c \in Codes |-> c \in {"CPT-99453", "CPT-99474"}]
  /\ list_of_CPT_code_values = <<10000, 25>>

C6_ScenariosIndependent ==
  [][/\ (call = "run" /\ pc # "main") => UNCHANGED reimbFields
     /\ (call = "execute" /\ pc # "main")
          => UNCHANGED <<sliderFields, target_value>>
     /\ (pc' = "validation" /\ Count("validate", "none") = 0)
          => /\ list_of_CPT_code_values' = ExpectedValues(AllCodes)
             /\ total_Value_of_reimbursement' =
                  SumSeq(ExpectedValues(AllCodes)) * IntOf(fieldText')
             /\ amount' = IntOf(StripCurrency(total_recurring_reimbursement'))
    ]_vars

C6_Witness ==
  /\ pc = "validation" /\ call = "execute" /\ value_field # 0
  /\ Count("validate", "none") = 0
  /\ list_of_CPT_code_values = <<100, 200, 50>>

\* C7: with delta = target - (the value read once after the drag), the
\* correction sends only ARROW_RIGHT keys if delta > 0 and only ARROW_LEFT keys
\* if delta < 0, never more than |delta| of them and exactly |delta| when it
\* ends; with delta = 0 it sends none.
C7_KeyEvents ==
  pc \in {"ms_right", "ms_left", "ms_assert", "ms_return"} =>
    LET delta == target_value - IntOf(slider_value)
    IN /\ delta > 0 => (leftKeys = 0 /\ rightKeys <= delta)
       /\ delta < 0 => (rightKeys = 0 /\ leftKeys <= -delta)
       /\ delta = 0 => (rightKeys = 0 /\ leftKeys = 0)
       /\ pc = "ms_return" => rightKeys + leftKeys = Abs(delta)

C7_Witness ==
  /\ pc = "ms_return" /\ rightKeys = MaxDrift /\ leftKeys = 0
  /\ target_value = InitTarget

\* C8: in execute the checkboxes are clicked once each in list order, each
\* amount is read right after its own click, the aggregate and the patient
\* count are scraped after the fourth code, and the validation comes last.
C8_ExecuteOrder ==
  /\ IsPrefix(log, ExpectedLog)
  /\ InLoop =>
       Len(log) = 2 * (j - 1) + (IF pc = "cb_read" THEN 1
                                 ELSE IF pc = "cb_probe" THEN 2 ELSE 0)
  /\ pc = "count_scrape" => Len(log) = 2 * AllCodes
  /\ pc = "validation" => Len(log) = 2 * AllCodes + 2
  /\ (pc \in {"main", "exited"} /\ call = "execute") => log = ExpectedLog

C8_Witness ==
  pc = "main" /\ call = "execute" /\ error = "none" /\ log = ExpectedLog

C10_ListAccumulates ==
  /\ [](Len(list_of_CPT_code_values)
          <= Cardinality({i \in DOMAIN log : log[i].ev = "click"}))
  /\ [](pc = "validation" =>
          LET k == Count("click", list_of_CPT_codes[1])
          IN /\ list_of_CPT_code_values = Times(ExpectedValues(AllCodes), k)
             /\ total_Value_of_reimbursement =
                  k * SumSeq(ExpectedValues(AllCodes)) * IntOf(fieldText))
  /\ [][IsPrefix(list_of_CPT_code_values, list_of_CPT_code_values')]_vars

C10_Witness ==
  /\ pc = "validation" /\ Count("click", list_of_CPT_codes[1]) = 2
  /\ list_of_CPT_code_values = <<100, 200, 50, 100, 200, 50>>
  /\ total_Value_of_reimbursement = 35000

====
